---- MODULE Spec2Model ----
(***************************************************************************)
(* Model of the CRM GraphQL engine of crm/schema.py: the four mutations    *)
(* (createCustomer, bulkCreateCustomers, createProduct, createOrder) and   *)
(* the three list resolvers, over the storage they read and write.         *)
(*                                                                         *)
(* Conventions.  A Python string that the code builds (an error message)   *)
(* is a sequence of text pieces, and concatenation is \o; a string that    *)
(* the code inspects character by character (a phone number, an id, a      *)
(* name) is a sequence of one-character strings.  An optional value is     *)
(* None (<<>>) or Some(v) (<<v>>).  Decimal amounts are integers counted   *)
(* in the smallest currency unit (999.99 is 99999), so sums are exact.     *)
(***************************************************************************)
EXTENDS Integers, Sequences, FiniteSets, TLC

VARIABLES customers, products, orders, client, call, query

vars == <<customers, products, orders, client, call, query>>

None == <<>>

Some(v) == <<v>>

IsSome(o) == o # None

\* Python truthiness of an optional sequence value: None and "" are falsy.
Truthy(o) == IsSome(o) /\ o[1] # <<>>

SeqToSet(s) == {s[i] : i \in 1..Len(s)}

----------------------------------------------------------------------------
(* Bounds of the model.                                                    *)

\* Longest input list given to bulkCreateCustomers.
MaxRows == 2

\* Most product and order records the storage holds, taken together.
MaxRecords == 3

\* Longest productIds list given to createOrder.
MaxIds == 2

\* timezone.now(): the clock reads the same day throughout.
Now == 2

\* The day seed_db.py was run: the date of the records it created.
SeedDay == 1

----------------------------------------------------------------------------
(* crm/schema.py: PHONE_REGEX and the customer validation.                 *)

Digits == {"0", "1", "2", "3", "4", "5", "6", "7", "8", "9"}

\* Quantifier bounds of [\d\-]{6,20} in PHONE_REGEX.
PhoneTailMin == 6

PhoneTailMax == 20

\* PHONE_REGEX.match(s) for a character sequence s:
\* ^(\+?\d[\d\-]{6,20})$ ; Python's $ also matches before one final newline.
PhoneRegexMatch(s) ==
    LET t == IF Len(s) > 0 /\ s[Len(s)] = "\n" THEN SubSeq(s, 1, Len(s) - 1) ELSE s
        b == IF Len(t) > 0 /\ t[1] = "+" THEN Tail(t) ELSE t
    IN  /\ Len(b) >= 1
        /\ b[1] \in Digits
        /\ (Len(b) - 1) \in PhoneTailMin..PhoneTailMax
        /\ \A i \in 2..Len(b) : b[i] \in Digits \cup {"-"}

MsgEmailExists == <<"Email already exists.">>

MsgInvalidPhone == <<"Invalid phone number format.">>

MsgCustomerCreated == <<"Customer created successfully.">>

\* Customer.objects.filter(email=e).exists(): an exact, case-sensitive match.
EmailExists(e, cs) == \E i \in 1..Len(cs) : cs[i].email = e

\* phone = input.phone or ""
PhoneOrEmpty(p) == IF Truthy(p) THEN p[1] ELSE <<>>

\* phone or None
PhoneOrNone(s) == IF s # <<>> THEN Some(s) ELSE None

\* Mutant: the duplicate-email check short-circuits the phone check.
CustomerErrorsShortCircuit(row, cs) ==
    IF EmailExists(row.email, cs)
    THEN <<MsgEmailExists>>
    ELSE IF PhoneOrEmpty(row.phone) # <<>> /\ ~PhoneRegexMatch(PhoneOrEmpty(row.phone))
         THEN <<MsgInvalidPhone>>
         ELSE <<>>

\* The two validation checks of one customer input, both always evaluated.
CustomerErrors(row, cs) ==
    (IF EmailExists(row.email, cs) THEN <<MsgEmailExists>> ELSE <<>>)
    \o (IF PhoneOrEmpty(row.phone) # <<>> /\ ~PhoneRegexMatch(PhoneOrEmpty(row.phone))
        THEN <<MsgInvalidPhone>>
        ELSE <<>>)

\* The record Customer.objects.create builds from an input row.
NewCustomer(row, cs) ==
    [id |-> Len(cs) + 1, name |-> row.name, email |-> row.email,
     phone |-> PhoneOrNone(PhoneOrEmpty(row.phone)), created_at |-> Now]

\* Mutant: storage without the unique constraint on Customer.email.
StorageRejectsNever(row, cs) == FALSE

\* The storage-level unique constraint on Customer.email: the insert is
\* rejected (IntegrityError) when the email is already stored.
StorageRejects(row, cs) == EmailExists(row.email, cs)

\* "; ".join(msgs)
RECURSIVE Join(_)
Join(msgs) ==
    IF msgs = <<>> THEN <<>>
    ELSE IF Len(msgs) = 1 THEN msgs[1]
    ELSE msgs[1] \o <<"; ">> \o Join(Tail(msgs))

\* Mutant: rows are numbered from one.
RowErrorOneBased(index, row_errors) ==
    <<"Row ", ToString(index + 1), ": ">> \o Join(row_errors)

\* f"Row {index}: " + "; ".join(row_errors)
RowError(index, row_errors) ==
    <<"Row ", ToString(index), ": ">> \o Join(row_errors)

----------------------------------------------------------------------------
(* Inputs of the customer mutations.                                       *)

Clients == {"c1", "c2"}

Names == {<<"A", "l">>}

Emails == {<<"a", "@", "x">>, <<"b", "@", "x">>}

PhoneOk == <<"+", "1", "2", "3", "4", "5", "6", "7", "8", "9", "0">>

PhoneBad == <<"1", "2">>

PhoneInputs == {None, Some(PhoneOk), Some(PhoneBad)}

CustomerInputs == [name : Names, email : Emails, phone : PhoneInputs]

\* The rows of the interleaved requests: the phone plays no part in the race.
RaceInputs == [name : Names, email : Emails, phone : {None}]

BulkInputs(rows) == UNION {[1..n -> rows] : n \in 0..MaxRows}

IdleClient ==
    [op |-> "none", pc |-> "idle", input |-> <<>>, index |-> 0,
     errors |-> <<>>, created |-> <<>>, result |-> None]

\* A client may issue a request when it has none in flight.
Free(c) == client[c].pc \in {"idle", "done", "fault"}

----------------------------------------------------------------------------
(* createCustomer: the pre-check and the write are separate storage steps. *)

\* CreateCustomer.mutate up to the write: validation and the early return.
CreateCustomerCheck(c, row) ==
    /\ Free(c)
    /\ LET errors == CustomerErrors(row, customers)
       IN  client' = [client EXCEPT ![c] =
               IF errors # <<>>
               THEN [IdleClient EXCEPT !.op = "create", !.pc = "done",
                        !.input = <<row>>, !.errors = errors,
                        !.result = Some([customer |-> None, message |-> None,
                                         errors |-> errors])]
               ELSE [IdleClient EXCEPT !.op = "create", !.pc = "write",
                        !.input = <<row>>]]
    /\ UNCHANGED <<customers, products, orders, call, query>>

\* CreateCustomer.mutate from Customer.objects.create on; a rejected insert
\* raises out of mutate, which has no handler for it.
CreateCustomerWrite(c) ==
    /\ client[c].op = "create"
    /\ client[c].pc = "write"
    /\ LET row == client[c].input[1]
           customer == NewCustomer(row, customers)
       IN  IF StorageRejects(row, customers)
           THEN /\ client' = [client EXCEPT ![c].pc = "fault"]
                /\ UNCHANGED customers
           ELSE /\ customers' = Append(customers, customer)
                /\ client' = [client EXCEPT ![c].pc = "done",
                       ![c].created = <<customer>>,
                       ![c].result = Some([customer |-> Some(customer),
                                           message |-> Some(MsgCustomerCreated),
                                           errors |-> <<>>])]
    /\ UNCHANGED <<products, orders, call, query>>

----------------------------------------------------------------------------
(* bulkCreateCustomers: one loop iteration is a check step, then a write.  *)

\* BulkCreateCustomers.mutate is entered with its input list.
BulkStart(c, input) ==
    /\ Free(c)
    /\ client' = [client EXCEPT ![c] =
           [IdleClient EXCEPT !.op = "bulk", !.pc = "check", !.input = input]]
    /\ UNCHANGED <<customers, products, orders, call, query>>

\* The validation of row `index`: a failing row is recorded and skipped.
BulkRowCheck(c) ==
    /\ client[c].op = "bulk"
    /\ client[c].pc = "check"
    /\ client[c].index < Len(client[c].input)
    /\ LET index == client[c].index
           row == client[c].input[index + 1]
           row_errors == CustomerErrors(row, customers)
       IN  client' = [client EXCEPT ![c] =
               IF row_errors # <<>>
               THEN [@ EXCEPT !.errors = Append(@, RowError(index, row_errors)),
                              !.index = index + 1]
               ELSE [@ EXCEPT !.pc = "write"]]
    /\ UNCHANGED <<customers, products, orders, call, query>>

\* Customer.objects.create for row `index`; a rejected insert raises out of
\* mutate and the rows written before it stay written.
BulkRowWrite(c) ==
    /\ client[c].op = "bulk"
    /\ client[c].pc = "write"
    /\ LET row == client[c].input[client[c].index + 1]
           customer == NewCustomer(row, customers)
       IN  IF StorageRejects(row, customers)
           THEN /\ client' = [client EXCEPT ![c].pc = "fault"]
                /\ UNCHANGED customers
           ELSE /\ customers' = Append(customers, customer)
                /\ client' = [client EXCEPT ![c].pc = "check",
                       ![c].created = Append(@, customer),
                       ![c].index = @ + 1]
    /\ UNCHANGED <<products, orders, call, query>>

\* The loop is over: return the created customers and the row errors.
BulkReturn(c) ==
    /\ client[c].op = "bulk"
    /\ client[c].pc = "check"
    /\ client[c].index = Len(client[c].input)
    /\ client' = [client EXCEPT ![c].pc = "done",
           ![c].result = Some([customers |-> client[c].created,
                               errors |-> client[c].errors])]
    /\ UNCHANGED <<customers, products, orders, call, query>>

IdleCall ==
    [op |-> "none", pc |-> "idle", input |-> <<>>, found |-> <<>>, order |-> 0,
     result |-> None]

NoQuery == [entity |-> "none", filter |-> None, filter_data |-> <<>>, result |-> {}]

InitCustomer ==
    /\ customers = <<>>
    /\ products = <<>>
    /\ orders = <<>>
    /\ client = [c \in Clients |-> IdleClient]
    /\ call = IdleCall
    /\ query = NoQuery

\* The requests the clients `cs` may issue, with rows drawn from `rows`.
CustomerRequests(cs, rows) ==
    \/ \E c \in cs, row \in rows : CreateCustomerCheck(c, row)
    \/ \E c \in cs : CreateCustomerWrite(c)
    \/ \E c \in cs, input \in BulkInputs(rows) : BulkStart(c, input)
    \/ \E c \in cs : BulkRowCheck(c)
    \/ \E c \in cs : BulkRowWrite(c)
    \/ \E c \in cs : BulkReturn(c)

\* One client issuing one request after the other.
NextCustomer == CustomerRequests({"c1"}, CustomerInputs)

SpecCustomer == InitCustomer /\ [][NextCustomer]_vars

\* Two clients whose requests interleave at every storage step.
NextRace == CustomerRequests(Clients, RaceInputs)

SpecRace == InitCustomer /\ [][NextRace]_vars

----------------------------------------------------------------------------
(* createProduct.                                                          *)

MsgPricePositive == <<"Price must be positive.">>

MsgInvalidPrice == <<"Invalid price value.">>

MsgStockNegative == <<"Stock cannot be negative.">>

\* A price argument is a float, given by its decimal literal counted in the
\* smallest currency unit, the float nan, or a text that is no number.
PriceInputs ==
    {[kind |-> "float", units |-> -500], [kind |-> "float", units |-> 0],
     [kind |-> "float", units |-> 2550], [kind |-> "float", units |-> 99999],
     [kind |-> "nan", units |-> 0], [kind |-> "text", units |-> 0]}

StockInputs == {None, Some(-1), Some(0)}

ProductNames == {<<"L", "a", "p">>}

ProductInputs == [name : ProductNames, price : PriceInputs, stock : StockInputs]

\* Decimal(str(input.price)): None stands for InvalidOperation.  str() of a
\* float is its shortest decimal literal, which Decimal reads exactly.
ToDecimal(price) ==
    IF price.kind = "text" THEN None
    ELSE Some(price)

\* stock = input.stock if input.stock is not None else 0
StockOrZero(stock) == IF IsSome(stock) THEN stock[1] ELSE 0

\* Mutant: a price of zero passes.
ProductErrorsZeroPasses(input) ==
    (IF ToDecimal(input.price) = None \/ input.price.kind = "nan"
     THEN <<MsgInvalidPrice>>
     ELSE IF input.price.units < 0 THEN <<MsgPricePositive>> ELSE <<>>)
    \o (IF StockOrZero(input.stock) < 0 THEN <<MsgStockNegative>> ELSE <<>>)

\* The price check and the stock check; a comparison with the decimal NaN
\* raises InvalidOperation, like a text that does not parse.
ProductErrors(input) ==
    (IF ToDecimal(input.price) = None \/ input.price.kind = "nan"
     THEN <<MsgInvalidPrice>>
     ELSE IF input.price.units <= 0 THEN <<MsgPricePositive>> ELSE <<>>)
    \o (IF StockOrZero(input.stock) < 0 THEN <<MsgStockNegative>> ELSE <<>>)

\* No mutation call is in flight.
CallFree == call.pc = "idle"

\* The response of a finished call, or the fault it raised, is handed to the
\* caller; the next call is dispatched after it.
CallReturn ==
    /\ call.pc \in {"done", "fault"}
    /\ call' = IdleCall
    /\ UNCHANGED <<customers, products, orders, client, query>>

\* CreateProduct.mutate.
CreateProduct(input) ==
    /\ CallFree
    /\ LET errors == ProductErrors(input)
           product == [id |-> Len(products) + 1, name |-> input.name,
                       price |-> input.price.units,
                       stock |-> StockOrZero(input.stock)]
       IN  IF errors # <<>>
           THEN /\ call' = [op |-> "createProduct", pc |-> "done", input |-> input,
                            found |-> <<>>, order |-> 0,
                            result |-> Some([product |-> None, errors |-> errors])]
                /\ UNCHANGED products
           ELSE /\ Len(products) + Len(orders) < MaxRecords
                /\ products' = Append(products, product)
                /\ call' = [op |-> "createProduct", pc |-> "done", input |-> input,
                            found |-> <<>>, order |-> 0,
                            result |-> Some([product |-> Some(product),
                                             errors |-> <<>>])]
    /\ UNCHANGED <<customers, orders, client, query>>

\* The prices a stored product is changed to outside the engine.
NewPrices == {7990}

\* ProductAdmin: a stored product's price is edited.
ChangeProductPrice(i, price) ==
    /\ i \in 1..Len(products)
    /\ products[i].price # price
    /\ products' = [products EXCEPT ![i].price = price]
    /\ UNCHANGED <<customers, orders, client, call, query>>

----------------------------------------------------------------------------
(* createOrder.                                                            *)

MsgInvalidCustomer == <<"Invalid customer ID.">>

MsgNoProducts == <<"At least one product must be provided.">>

MsgProductsInvalid == <<"One or more product IDs are invalid.">>

\* f"Invalid product ID: {pid}"
MsgInvalidProduct(pid) == <<"Invalid product ID: ">> \o pid

DigitValue(ch) ==
    CASE ch = "0" -> 0 [] ch = "1" -> 1 [] ch = "2" -> 2 [] ch = "3" -> 3
      [] ch = "4" -> 4 [] ch = "5" -> 5 [] ch = "6" -> 6 [] ch = "7" -> 7
      [] ch = "8" -> 8 [] ch = "9" -> 9

RECURSIVE DigitsValue(_)
DigitsValue(s) ==
    IF s = <<>> THEN 0
    ELSE 10 * DigitsValue(SubSeq(s, 1, Len(s) - 1)) + DigitValue(s[Len(s)])

\* int(s) for an id given as text: an optional sign, then decimal digits;
\* None stands for ValueError.  (Surrounding blanks and underscores between
\* digits, which int() also accepts, are not among the inputs.)
ParseInt(s) ==
    LET signed == Len(s) > 0 /\ s[1] \in {"+", "-"}
        body == IF signed THEN Tail(s) ELSE s
    IN  IF body # <<>> /\ \A i \in 1..Len(body) : body[i] \in Digits
        THEN Some(IF signed /\ s[1] = "-" THEN 0 - DigitsValue(body)
                  ELSE DigitsValue(body))
        ELSE None

\* Customer.objects.get(id=int(customer_id)): None stands for ValueError or
\* Customer.DoesNotExist.
GetCustomer(customer_id, cs) ==
    LET n == ParseInt(customer_id)
    IN  IF IsSome(n) /\ \E i \in 1..Len(cs) : cs[i].id = n[1]
        THEN Some(n[1])
        ELSE None

\* product_ids_int: the ids that parse, in input order.
RECURSIVE ProductIdsInt(_)
ProductIdsInt(ids) ==
    IF ids = <<>> THEN <<>>
    ELSE (IF IsSome(ParseInt(Head(ids))) THEN <<ParseInt(Head(ids))[1]>> ELSE <<>>)
         \o ProductIdsInt(Tail(ids))

\* One "Invalid product ID" error for each id that does not parse.
RECURSIVE ParseErrors(_)
ParseErrors(ids) ==
    IF ids = <<>> THEN <<>>
    ELSE (IF IsSome(ParseInt(Head(ids))) THEN <<>> ELSE <<MsgInvalidProduct(Head(ids))>>)
         \o ParseErrors(Tail(ids))

\* list(Product.objects.filter(id__in=ids)): each stored product once.
RECURSIVE FilterIdIn(_, _)
FilterIdIn(ps, ids) ==
    IF ps = <<>> THEN <<>>
    ELSE (IF Head(ps).id \in SeqToSet(ids) THEN <<Head(ps)>> ELSE <<>>)
         \o FilterIdIn(Tail(ps), ids)

\* Mutant: the products found are counted against the ids as given, not
\* against the distinct ids.
CountMismatchNotDistinct(found, ids_int) == Len(found) # Len(ids_int)

\* len(products) != len(set(product_ids_int))
CountMismatch(found, ids_int) == Len(found) # Cardinality(SeqToSet(ids_int))

\* Mutant: the customer check does not return early.
OrderErrorsNoShortCircuit(input, cs, ps) ==
    (IF GetCustomer(input.customer_id, cs) = None THEN <<MsgInvalidCustomer>> ELSE <<>>)
    \o (IF input.product_ids = <<>> THEN <<MsgNoProducts>>
        ELSE ParseErrors(input.product_ids)
             \o (IF CountMismatch(FilterIdIn(ps, ProductIdsInt(input.product_ids)),
                                  ProductIdsInt(input.product_ids))
                 THEN <<MsgProductsInvalid>> ELSE <<>>))

\* The errors CreateOrder.mutate returns: the customer check and the
\* empty-list check return at once, the id checks accumulate.
OrderErrors(input, cs, ps) ==
    IF GetCustomer(input.customer_id, cs) = None THEN <<MsgInvalidCustomer>>
    ELSE IF input.product_ids = <<>> THEN <<MsgNoProducts>>
    ELSE ParseErrors(input.product_ids)
         \o (IF CountMismatch(FilterIdIn(ps, ProductIdsInt(input.product_ids)),
                              ProductIdsInt(input.product_ids))
             THEN <<MsgProductsInvalid>> ELSE <<>>)

\* Mutant: the sum misses the first product.
RECURSIVE SumPricesSkipFirst(_)
SumPricesSkipFirst(found) ==
    IF Len(found) <= 1 THEN 0
    ELSE found[Len(found)].price + SumPricesSkipFirst(SubSeq(found, 1, Len(found) - 1))

\* sum((p.price for p in products), Decimal("0.00")): an exact decimal sum.
RECURSIVE SumPrices(_)
SumPrices(found) ==
    IF found = <<>> THEN 0
    ELSE Head(found).price + SumPrices(Tail(found))

CustomerIdInputs == {<<"1">>, <<"7">>, <<"x">>}

ProductIdInputs == {<<"1">>, <<"0", "2">>, <<"x">>}

\* No order date is given: the engine supplies the current time.
OrderDateInputs == {None, Some(SeedDay)}

OrderInputs ==
    [customer_id : CustomerIdInputs,
     product_ids : UNION {[1..n -> ProductIdInputs] : n \in 0..MaxIds},
     order_date : OrderDateInputs]

\* CreateOrder.mutate up to Order.objects.create: the checks, the total and
\* the write of the order row, which has no products yet.
CreateOrderBegin(input) ==
    /\ CallFree
    /\ LET errors == OrderErrors(input, customers, products)
           found == FilterIdIn(products, ProductIdsInt(input.product_ids))
           order == [id |-> Len(orders) + 1,
                     customer |-> GetCustomer(input.customer_id, customers)[1],
                     total_amount |-> SumPrices(found),
                     order_date |-> IF IsSome(input.order_date)
                                    THEN input.order_date[1] ELSE Now,
                     products |-> {}]
       IN  IF errors # <<>>
           THEN /\ call' = [op |-> "createOrder", pc |-> "done", input |-> input,
                            found |-> <<>>, order |-> 0,
                            result |-> Some([order |-> None, errors |-> errors])]
                /\ UNCHANGED orders
           ELSE /\ Len(products) + Len(orders) < MaxRecords
                /\ orders' = Append(orders, order)
                /\ call' = [op |-> "createOrder", pc |-> "set_products",
                            input |-> input, found |-> found, order |-> order.id,
                            result |-> None]
    /\ UNCHANGED <<customers, products, client, query>>

\* order.products.set(products), and the return of the order.
CreateOrderSetProducts ==
    /\ call.op = "createOrder"
    /\ call.pc = "set_products"
    /\ orders' = [orders EXCEPT ![call.order].products =
                      {call.found[i].id : i \in 1..Len(call.found)}]
    /\ call' = [call EXCEPT !.pc = "done",
                   !.result = Some([order |-> Some(orders'[call.order]),
                                    errors |-> <<>>])]
    /\ UNCHANGED <<customers, products, client, query>>

\* The storage fails in order.products.set: the fault leaves mutate, which
\* wraps its two writes in no transaction, and the order row stays.
CreateOrderFault ==
    /\ call.op = "createOrder"
    /\ call.pc = "set_products"
    /\ call' = [call EXCEPT !.pc = "fault"]
    /\ UNCHANGED <<customers, products, orders, client, query>>

\* The customers the storage holds when the order engine is exercised.
SeedCustomers ==
    <<[id |-> 1, name |-> <<"A", "l", "i", "c", "e", " ", "J", "o", "h", "n", "s", "o", "n">>, email |-> <<"a", "l", "i", "c", "e", "@", "e", "x", "a", "m", "p", "l", "e", ".", "c", "o", "m">>,
       phone |-> Some(PhoneOk), created_at |-> SeedDay],
      [id |-> 2, name |-> <<"B", "o", "b", " ", "S", "m", "i", "t", "h">>, email |-> <<"b", "o", "b", "@", "e", "x", "a", "m", "p", "l", "e", ".", "c", "o", "m">>,
       phone |-> Some(<<"1", "2", "3", "-", "4", "5", "6", "-", "7", "8", "9", "0">>), created_at |-> SeedDay],
      [id |-> 3, name |-> <<"C", "a", "r", "o", "l", " ", "D", "a", "v", "i", "s">>, email |-> <<"c", "a", "r", "o", "l", "@", "e", "x", "a", "m", "p", "l", "e", ".", "c", "o", "m">>,
       phone |-> None, created_at |-> SeedDay]>>

InitOrder ==
    /\ customers = SeedCustomers
    /\ products = <<>>
    /\ orders = <<>>
    /\ client = [c \in Clients |-> IdleClient]
    /\ call = IdleCall
    /\ query = NoQuery

\* The products the order engine is exercised on: the inputs that pass.
OrderProductInputs == {input \in ProductInputs : ProductErrors(input) = <<>>}

NextOrder ==
    \/ \E input \in OrderProductInputs : CreateProduct(input)
    \/ \E i \in 1..Len(products), price \in NewPrices : ChangeProductPrice(i, price)
    \/ \E input \in OrderInputs : CreateOrderBegin(input)
    \/ CreateOrderSetProducts
    \/ CreateOrderFault
    \/ CallReturn

SpecOrder == InitOrder /\ [][NextOrder]_vars

NextProduct ==
    \/ \E input \in ProductInputs : CreateProduct(input)
    \/ \E i \in 1..Len(products), price \in NewPrices : ChangeProductPrice(i, price)
    \/ CallReturn

SpecProduct == InitOrder /\ [][NextProduct]_vars

----------------------------------------------------------------------------
(* The list resolvers and the filter sets they hand their filter data to.  *)

\* The products and orders seed_db.py creates.
SeedProducts ==
    <<[id |-> 1, name |-> <<"L", "a", "p", "t", "o", "p">>, price |-> 99999, stock |-> 10],
      [id |-> 2, name |-> <<"W", "i", "r", "e", "l", "e", "s", "s", " ", "M", "o", "u", "s", "e">>, price |-> 2550, stock |-> 100],
      [id |-> 3, name |-> <<"M", "e", "c", "h", "a", "n", "i", "c", "a", "l", " ", "K", "e", "y", "b", "o", "a", "r", "d">>, price |-> 7990, stock |-> 50]>>

SeedOrders ==
    <<[id |-> 1, customer |-> 1,
       total_amount |-> SeedProducts[1].price + SeedProducts[2].price,
       order_date |-> SeedDay, products |-> {1, 2}],
      [id |-> 2, customer |-> 2,
       total_amount |-> SeedProducts[2].price + SeedProducts[3].price,
       order_date |-> SeedDay, products |-> {2, 3}],
      [id |-> 3, customer |-> 3,
       total_amount |-> SeedProducts[3].price,
       order_date |-> SeedDay, products |-> {3}]>>

\* A key the filter object does not hold; a key may also hold null (None).
Absent == <<"absent", "key">>

\* filter.get(key)
Get(filter, key) == IF filter[key] = Absent THEN None ELSE filter[key]

\* `if filter:` an object holding no key is falsy, like no object.
FilterGiven(filter, keys) ==
    IsSome(filter) /\ \E k \in keys : filter[1][k] # Absent

\* Python truthiness of a text value, a date and an id.
TruthyText(o) == IsSome(o) /\ o[1] # <<>>

TruthyDate(o) == IsSome(o)

CustomerKeys ==
    {"name_icontains", "email_icontains", "created_at_gte", "created_at_lte",
     "phone_startswith"}

CustomerDateKeys == {"created_at_gte", "created_at_lte"}

ProductKeys == {"name_icontains", "price_gte", "price_lte", "stock_gte", "stock_lte"}

ProductNumericKeys == {"price_gte", "price_lte", "stock_gte", "stock_lte"}

OrderKeys ==
    {"total_amount_gte", "total_amount_lte", "order_date_gte", "order_date_lte",
     "customer_name", "product_name", "product_id"}

OrderNumericKeys == {"total_amount_gte", "total_amount_lte"}

OrderDateKeys == {"order_date_gte", "order_date_lte"}

\* filter_data of resolve_all_customers: every key is kept when truthy.
CustomerFilterData(filter) ==
    IF ~FilterGiven(filter, CustomerKeys) THEN <<>>
    ELSE LET f == filter[1]
             kept == {k \in CustomerKeys :
                         IF k \in CustomerDateKeys THEN TruthyDate(Get(f, k))
                         ELSE TruthyText(Get(f, k))}
         IN  [k \in kept |-> Get(f, k)[1]]

\* Mutant: the numeric bounds are kept when truthy, so a bound of 0 is dropped.
ProductFilterDataTruthy(filter) ==
    IF ~FilterGiven(filter, ProductKeys) THEN <<>>
    ELSE LET f == filter[1]
             kept == {k \in ProductKeys :
                         IF k \in ProductNumericKeys
                         THEN IsSome(Get(f, k)) /\ Get(f, k)[1] # 0
                         ELSE TruthyText(Get(f, k))}
         IN  [k \in kept |-> Get(f, k)[1]]

\* filter_data of resolve_all_products: the name is kept when truthy, the
\* numeric bounds when they are not None.
ProductFilterData(filter) ==
    IF ~FilterGiven(filter, ProductKeys) THEN <<>>
    ELSE LET f == filter[1]
             kept == {k \in ProductKeys :
                         IF k \in ProductNumericKeys THEN IsSome(Get(f, k))
                         ELSE TruthyText(Get(f, k))}
         IN  [k \in kept |-> Get(f, k)[1]]

\* filter_data of resolve_all_orders: the amounts are kept when they are not
\* None, the other keys when truthy.
OrderFilterData(filter) ==
    IF ~FilterGiven(filter, OrderKeys) THEN <<>>
    ELSE LET f == filter[1]
             kept == {k \in OrderKeys :
                         IF k \in OrderNumericKeys THEN IsSome(Get(f, k))
                         ELSE IF k \in OrderDateKeys THEN TruthyDate(Get(f, k))
                         ELSE TruthyText(Get(f, k))}
         IN  [k \in kept |-> Get(f, k)[1]]

UpperCase ==
    <<"A", "B", "C", "D", "E", "F", "G", "H", "I", "J", "K", "L", "M",
      "N", "O", "P", "Q", "R", "S", "T", "U", "V", "W", "X", "Y", "Z">>

LowerCase ==
    <<"a", "b", "c", "d", "e", "f", "g", "h", "i", "j", "k", "l", "m",
      "n", "o", "p", "q", "r", "s", "t", "u", "v", "w", "x", "y", "z">>

Lower(s) ==
    [i \in 1..Len(s) |->
        IF \E n \in 1..Len(UpperCase) : UpperCase[n] = s[i]
        THEN LowerCase[CHOOSE n \in 1..Len(UpperCase) : UpperCase[n] = s[i]]
        ELSE s[i]]

\* A case-insensitive substring match, and a case-insensitive prefix match.
IContains(text, part) ==
    \E i \in 0..(Len(text) - Len(part)) :
        SubSeq(Lower(text), i + 1, i + Len(part)) = Lower(part)

IStartsWith(text, part) ==
    Len(part) <= Len(text) /\ SubSeq(Lower(text), 1, Len(part)) = Lower(part)

\* The predicate of one key of CustomerFilter.
CustomerMatches(c, key, value) ==
    CASE key = "name_icontains" -> IContains(c.name, value)
      [] key = "email_icontains" -> IContains(c.email, value)
      [] key = "created_at_gte" -> c.created_at >= value
      [] key = "created_at_lte" -> c.created_at <= value
      [] key = "phone_startswith" -> IsSome(c.phone) /\ IStartsWith(c.phone[1], value)

\* The predicate of one key of ProductFilter; the bounds are inclusive.
ProductMatches(p, key, value) ==
    CASE key = "name_icontains" -> IContains(p.name, value)
      [] key = "price_gte" -> p.price >= value
      [] key = "price_lte" -> p.price <= value
      [] key = "stock_gte" -> p.stock >= value
      [] key = "stock_lte" -> p.stock <= value

\* The predicate of one key of OrderFilter; the relationship keys match
\* through the order's customer and products.
OrderMatches(o, key, value, cs, ps) ==
    CASE key = "total_amount_gte" -> o.total_amount >= value
      [] key = "total_amount_lte" -> o.total_amount <= value
      [] key = "order_date_gte" -> o.order_date >= value
      [] key = "order_date_lte" -> o.order_date <= value
      [] key = "customer_name" ->
             \E i \in 1..Len(cs) : cs[i].id = o.customer /\ IContains(cs[i].name, value)
      [] key = "product_name" ->
             \E i \in 1..Len(ps) : ps[i].id \in o.products /\ IContains(ps[i].name, value)
      [] key = "product_id" ->
             IsSome(ParseInt(value)) /\ ParseInt(value)[1] \in o.products

\* CustomerFilter(data=filter_data, queryset=Customer.objects.all()).qs: the
\* customers matching every key of the data, by id.
CustomerFilterQs(data, cs) ==
    {cs[i].id : i \in {n \in 1..Len(cs) :
        \A k \in DOMAIN data : CustomerMatches(cs[n], k, data[k])}}

ProductFilterQs(data, ps) ==
    {ps[i].id : i \in {n \in 1..Len(ps) :
        \A k \in DOMAIN data : ProductMatches(ps[n], k, data[k])}}

OrderFilterQs(data, os, cs, ps) ==
    {os[i].id : i \in {n \in 1..Len(os) :
        \A k \in DOMAIN data : OrderMatches(os[n], k, data[k], cs, ps)}}

\* The filter arguments of the queries: no filter object, or an object in
\* which each key is absent, null or set.
TextValues(parts) == {Absent, None, Some(<<>>)} \cup {Some(t) : t \in parts}

DateValues == {Absent, None, Some(SeedDay), Some(Now)}

CustomerFilters ==
    {None} \cup
    {Some(f) : f \in
        [name_icontains : TextValues({<<"A", "L">>}),
         email_icontains : {Absent, Some(<<"b", "o", "b">>)},
         created_at_gte : DateValues,
         created_at_lte : {Absent, Some(SeedDay)},
         phone_startswith : TextValues({<<"+", "1">>})]}

ProductFilters ==
    {None} \cup
    {Some(f) : f \in
        [name_icontains : TextValues({<<"m", "o">>}),
         price_gte : {Absent, None, Some(0), Some(5000)},
         price_lte : {Absent, None, Some(0), Some(10000)},
         stock_gte : {Absent, None, Some(0), Some(50)},
         stock_lte : {Absent, Some(0), Some(50)}]}

OrderFilters ==
    {None} \cup
    {Some(f) : f \in
        [total_amount_gte : {Absent, None, Some(0), Some(10000)},
         total_amount_lte : {Absent, None, Some(0), Some(10540)},
         order_date_gte : {Absent, None, Some(Now)},
         order_date_lte : {Absent, Some(SeedDay)},
         customer_name : {Absent, Some(<<>>), Some(<<"b", "o">>)},
         product_name : {Absent, None, Some(<<"K", "E", "Y">>)},
         product_id : {Absent, Some(<<>>), Some(<<"2">>)}]}

\* Query.resolve_all_customers; order_by arranges the collection and leaves
\* its members as they are, and the result is held by its members.
ResolveAllCustomers(filter) ==
    /\ query = NoQuery
    /\ query' = [entity |-> "customers", filter |-> filter,
                 filter_data |-> CustomerFilterData(filter),
                 result |-> CustomerFilterQs(CustomerFilterData(filter), customers)]
    /\ UNCHANGED <<customers, products, orders, client, call>>

\* Query.resolve_all_products.
ResolveAllProducts(filter) ==
    /\ query = NoQuery
    /\ query' = [entity |-> "products", filter |-> filter,
                 filter_data |-> ProductFilterData(filter),
                 result |-> ProductFilterQs(ProductFilterData(filter), products)]
    /\ UNCHANGED <<customers, products, orders, client, call>>

\* Query.resolve_all_orders.
ResolveAllOrders(filter) ==
    /\ query = NoQuery
    /\ query' = [entity |-> "orders", filter |-> filter,
                 filter_data |-> OrderFilterData(filter),
                 result |-> OrderFilterQs(OrderFilterData(filter), orders,
                                          customers, products)]
    /\ UNCHANGED <<customers, products, orders, client, call>>

\* The collection is handed to the caller; the next query follows it.
QueryReturn ==
    /\ query # NoQuery
    /\ query' = NoQuery
    /\ UNCHANGED <<customers, products, orders, client, call>>

\* The storage after seed_db.py has run.
InitFilter ==
    /\ customers = SeedCustomers
    /\ products = SeedProducts
    /\ orders = SeedOrders
    /\ client = [c \in Clients |-> IdleClient]
    /\ call = IdleCall
    /\ query = NoQuery

NextFilter ==
    \/ \E filter \in CustomerFilters : ResolveAllCustomers(filter)
    \/ \E filter \in ProductFilters : ResolveAllProducts(filter)
    \/ \E filter \in OrderFilters : ResolveAllOrders(filter)
    \/ QueryReturn

SpecFilter == InitFilter /\ [][NextFilter]_vars

----------------------------------------------------------------------------
(* Claims about the customer mutations.                                    *)

\* s begins with the pieces of p.
HasPrefix(s, p) == Len(s) >= Len(p) /\ SubSeq(s, 1, Len(p)) = p

\* The message msg occurs in the joined string s.
Contains(s, msg) == \E i \in 1..Len(s) : s[i] = msg[1]

\* C1: in every reachable state, under every interleaving of createCustomer
\* and bulkCreateCustomers steps, no two stored customers share an email.
C1_UniqueEmails ==
    \A i, j \in 1..Len(customers) :
        i # j => customers[i].email # customers[j].email

\* Two requests passed the pre-check for the same email; one wrote, and the
\* write of the other was rejected by the storage.
C1_Witness ==
    \E c, d \in Clients :
        /\ c # d
        /\ client[c].pc = "fault"
        /\ client[d].pc = "done"
        /\ client[d].created # <<>>
        /\ \E k \in 1..Len(client[d].created) :
               client[d].created[k].email
                   = client[c].input[client[c].index + 1].email
        /\ Len(customers) = Cardinality({customers[i].email : i \in 1..Len(customers)})

\* C2: a createCustomer request whose write the unique constraint rejects
\* returns customer = none with errors ["Email already exists."]; it never
\* ends in a storage fault raised to the caller.
C2_RejectedWriteIsValidationError ==
    [][\A c \in Clients :
          (/\ client[c].op = "create"
           /\ client[c].pc = "write"
           /\ client'[c] # client[c]
           /\ StorageRejects(client[c].input[1], customers))
          => /\ client'[c].pc = "done"
             /\ client'[c].result = Some([customer |-> None, message |-> None,
                                          errors |-> <<MsgEmailExists>>])]_vars

\* The createCustomer check step of client c: a request is issued in this step.
CreateChecked(c) ==
    /\ Free(c)
    /\ client'[c] # client[c]
    /\ client'[c].op = "create"

\* C3 as stated: a createCustomer call whose email is already stored returns
\* errors exactly ["Email already exists."] and customer none, and writes
\* nothing, whatever the phone.
C3_DuplicateEmailOnlyError ==
    [][\A c \in Clients :
          (CreateChecked(c) /\ EmailExists(client'[c].input[1].email, customers))
          => /\ client'[c].pc = "done"
             /\ client'[c].result = Some([customer |-> None, message |-> None,
                                          errors |-> <<MsgEmailExists>>])
             /\ customers' = customers]_vars

\* C3 amended: a createCustomer call whose email is already stored returns
\* customer none and writes nothing; its errors are ["Email already exists."]
\* when the phone is absent, empty or matches the pattern, and
\* ["Email already exists.", "Invalid phone number format."] when it does not.
C3_DuplicateEmailErrors ==
    [][\A c \in Clients :
          (CreateChecked(c) /\ EmailExists(client'[c].input[1].email, customers))
          => LET phone == client'[c].input[1].phone
                 bad == Truthy(phone) /\ ~PhoneRegexMatch(phone[1])
             IN  /\ client'[c].pc = "done"
                 /\ client'[c].result =
                        Some([customer |-> None, message |-> None,
                              errors |-> IF bad
                                         THEN <<MsgEmailExists, MsgInvalidPhone>>
                                         ELSE <<MsgEmailExists>>])
                 /\ customers' = customers]_vars

\* A duplicate email sent with a phone that fails the pattern was answered.
C3_Witness ==
    \E c \in Clients :
        /\ client[c].op = "create"
        /\ client[c].pc = "done"
        /\ client[c].input[1].phone = Some(PhoneBad)
        /\ EmailExists(client[c].input[1].email, customers)
        /\ client[c].created = <<>>
        /\ client[c].result[1].errors = <<MsgEmailExists, MsgInvalidPhone>>

\* What a returned bulk call reports: every row whose email is that of an
\* earlier row created by the same call is absent from the created customers
\* and has an error "Row {i}: ..." naming its zero-based position and the
\* duplicate email, and every created customer is stored.
BulkReturned(c) ==
    (client[c].op = "bulk" /\ client[c].pc = "done") =>
        LET input == client[c].input
            r == client[c].result[1]
            phoneOk(j) ==
                ~Truthy(input[j].phone) \/ PhoneRegexMatch(input[j].phone[1])
            \* Row j is the row a returned customer was created from: the
            \* first row with this email whose phone passes.
            createdFrom(j) ==
                /\ phoneOk(j)
                /\ \A j2 \in 1..(j - 1) :
                       input[j2].email # input[j].email \/ ~phoneOk(j2)
                /\ \E k \in 1..Len(r.customers) :
                       /\ r.customers[k].email = input[j].email
                       /\ r.customers[k].name = input[j].name
                       /\ r.customers[k].phone = PhoneOrNone(PhoneOrEmpty(input[j].phone))
        IN  /\ \A k \in 1..Len(r.customers) :
                   \E n \in 1..Len(customers) : customers[n] = r.customers[k]
            /\ \A k, n \in 1..Len(r.customers) :
                   k # n => r.customers[k].email # r.customers[n].email
            /\ \A i \in 1..Len(input) :
                   (\E j \in 1..(i - 1) :
                        input[j].email = input[i].email /\ createdFrom(j))
                   => /\ \E e \in 1..Len(r.errors) :
                             /\ HasPrefix(r.errors[e], <<"Row ", ToString(i - 1), ": ">>)
                             /\ Contains(r.errors[e], MsgEmailExists)
                      /\ Len(r.errors) + Len(r.customers) = Len(input)

\* C4: bulkCreateCustomers handles its rows one after the other in input
\* order.  A row whose email is already stored when the row is checked
\* (stored before the call, or by an earlier row of the call) is not
\* persisted and adds the error "Row {i}: ..." containing "Email already
\* exists."; a passing row is persisted, and joins the created customers,
\* before the next row is checked; the call returns what BulkReturned says.
C4_BulkSequential ==
    [][\A c \in Clients :
          /\ (/\ client[c].op = "bulk"
              /\ client[c].pc = "check"
              /\ client'[c] # client[c]
              /\ client[c].index < Len(client[c].input))
             => LET i == client[c].index
                    row == client[c].input[i + 1]
                IN  /\ customers' = customers
                    /\ client'[c].created = client[c].created
                    /\ EmailExists(row.email, customers)
                       => /\ client'[c].index = i + 1
                          /\ client'[c].pc = "check"
                          /\ Len(client'[c].errors) = Len(client[c].errors) + 1
                          /\ HasPrefix(client'[c].errors[Len(client'[c].errors)],
                                       <<"Row ", ToString(i), ": ">>)
                          /\ Contains(client'[c].errors[Len(client'[c].errors)],
                                      MsgEmailExists)
          /\ (/\ client[c].op = "bulk"
              /\ client[c].pc = "write"
              /\ client'[c].pc = "check")
             => LET i == client[c].index
                    row == client[c].input[i + 1]
                IN  /\ client'[c].index = i + 1
                    /\ ~EmailExists(row.email, customers)
                    /\ EmailExists(row.email, customers')
                    /\ Len(customers') = Len(customers) + 1
                    /\ client'[c].created
                           = Append(client[c].created, customers'[Len(customers')])
                    /\ client'[c].errors = client[c].errors
          /\ BulkReturned(c)']_vars

\* bulkCreateCustomers([{email: a}, {email: a}]) on empty storage returned:
\* row 0 was created, row 1 was reported as a duplicate.
C4_Witness ==
    \E c \in Clients :
        /\ client[c].op = "bulk"
        /\ client[c].pc = "done"
        /\ Len(client[c].input) = 2
        /\ client[c].input[1].email = client[c].input[2].email
        /\ Len(customers) = 1
        /\ client[c].result[1].customers = <<customers[1]>>
        /\ customers[1].email = client[c].input[1].email
        /\ client[c].result[1].errors
               = << <<"Row ", "1", ": ", "Email already exists.">> >>

----------------------------------------------------------------------------
(* Claims about createProduct and createOrder.                             *)

\* The sum of the prices the products `ps` hold for the ids in `ids`.
RECURSIVE PriceSum(_, _)
PriceSum(ps, ids) ==
    IF ids = {} THEN 0
    ELSE LET id == CHOOSE x \in ids : TRUE
         IN  ps[id].price + PriceSum(ps, ids \ {id})

StoredProductIds == {products[k].id : k \in 1..Len(products)}

\* The positions of ids whose text is no integer, and the integers of the rest.
Unparseable(ids) == {i \in 1..Len(ids) : ParseInt(ids[i]) = None}

ParsedIds(ids) == {ParseInt(ids[i])[1] : i \in (1..Len(ids)) \ Unparseable(ids)}

\* A createOrder call is dispatched in this step.
OrderBegun == call.pc = "idle" /\ call'.op = "createOrder"

\* The customer id of the call dispatched in this step names a stored customer.
CustomerKnown ==
    /\ IsSome(ParseInt(call'.input.customer_id))
    /\ \E i \in 1..Len(customers) :
           customers[i].id = ParseInt(call'.input.customer_id)[1]

\* C5: createOrder persists the Order together with its non-empty product
\* association or leaves the storage unchanged, also when the storage fails
\* between the two writes: outside a running createOrder, every stored
\* Order references at least one Product.
C5_OrdersHaveProducts ==
    call.pc # "set_products" =>
        \A o \in 1..Len(orders) : orders[o].products # {}

\* C6: the total_amount of an order is the exact sum of the prices its
\* products had when createOrder read them, and no later step changes it.
C6_TotalIsSnapshot ==
    [][/\ Len(orders') >= Len(orders)
       /\ \A o \in 1..Len(orders) :
              orders'[o].total_amount = orders[o].total_amount
       /\ (OrderBegun /\ call'.pc = "set_products")
          => /\ Len(orders') = Len(orders) + 1
             /\ orders'[call'.order].total_amount
                    = PriceSum(products, ParsedIds(call'.input.product_ids))
       /\ (call.pc = "set_products" /\ call'.pc = "done")
          => /\ orders'[call.order].products = ParsedIds(call.input.product_ids)
             /\ orders'[call.order].total_amount
                    = PriceSum([id \in orders'[call.order].products |->
                                   CHOOSE f \in SeqToSet(call.found) : f.id = id],
                               orders'[call.order].products)
             /\ call'.result[1].order[1].total_amount
                    = orders'[call.order].total_amount]_vars

\* An order of the products priced 999.99 and 25.50 holds 1025.49 after a
\* price of one of them was changed.
C6_Witness ==
    \E o \in 1..Len(orders) :
        /\ orders[o].products = {1, 2}
        /\ orders[o].total_amount = 102549
        /\ PriceSum(products, orders[o].products) # 102549

\* C7: createOrder with a customer id that is no integer or names no stored
\* customer returns order none and exactly ["Invalid customer ID."],
\* whatever the product ids; with a known customer and no product ids it
\* returns exactly ["At least one product must be provided."]; neither
\* writes an order.
C7_ShortCircuit ==
    [][OrderBegun =>
          /\ ~CustomerKnown
             => /\ call'.pc = "done"
                /\ call'.result = Some([order |-> None,
                                        errors |-> <<MsgInvalidCustomer>>])
                /\ orders' = orders
          /\ (CustomerKnown /\ call'.input.product_ids = <<>>)
             => /\ call'.pc = "done"
                /\ call'.result = Some([order |-> None,
                                        errors |-> <<MsgNoProducts>>])
                /\ orders' = orders]_vars

\* An unknown customer sent with product ids that parse and do not parse
\* was answered with the customer error alone.
C7_Witness ==
    /\ call.op = "createOrder"
    /\ call.pc = "done"
    /\ ParseInt(call.input.customer_id) = None
    /\ Unparseable(call.input.product_ids) # {}
    /\ call.result = Some([order |-> None, errors |-> <<MsgInvalidCustomer>>])

\* C8: for a known customer and a non-empty id list, every id that does not
\* parse adds its own "Invalid product ID: {id}"; "One or more product IDs
\* are invalid." is added exactly when the stored products among the
\* distinct parsed ids are fewer than those ids; with any error the result
\* is order none and nothing is written; with none, exactly one order is
\* written and it is associated with exactly the distinct requested products.
C8_ProductIdErrors ==
    [][/\ (OrderBegun /\ CustomerKnown /\ call'.input.product_ids # <<>>)
          => LET ids == call'.input.product_ids
                 errs == IF call'.pc = "done" THEN call'.result[1].errors ELSE <<>>
                 missing == ParsedIds(ids) \ StoredProductIds
             IN  /\ \A i \in Unparseable(ids) :
                        \E e \in 1..Len(errs) : errs[e] = MsgInvalidProduct(ids[i])
                 /\ Cardinality({e \in 1..Len(errs) :
                        HasPrefix(errs[e], <<"Invalid product ID: ">>)})
                        = Cardinality(Unparseable(ids))
                 /\ (\E e \in 1..Len(errs) : errs[e] = MsgProductsInvalid)
                        <=> missing # {}
                 /\ \A e \in 1..Len(errs) :
                        \/ errs[e] = MsgProductsInvalid
                        \/ HasPrefix(errs[e], <<"Invalid product ID: ">>)
                 /\ IF Unparseable(ids) # {} \/ missing # {}
                    THEN /\ call'.pc = "done"
                         /\ errs # <<>>
                         /\ call'.result[1].order = None
                         /\ orders' = orders
                    ELSE /\ call'.pc = "set_products"
                         /\ Len(orders') = Len(orders) + 1
                         /\ SubSeq(orders', 1, Len(orders)) = orders
                 /\ products' = products
                 /\ customers' = customers
       /\ (call.pc = "set_products" /\ call'.pc = "done")
          => /\ Len(orders') = Len(orders)
             /\ orders'[call.order].products = ParsedIds(call.input.product_ids)
             /\ \A o \in 1..Len(orders) :
                    o # call.order => orders'[o] = orders[o]
             /\ call'.result = Some([order |-> Some(orders'[call.order]),
                                     errors |-> <<>>])]_vars

\* An order was written from an id list that names one product twice.
C8_Witness ==
    /\ call.op = "createOrder"
    /\ call.pc = "done"
    /\ IsSome(call.result[1].order)
    /\ Len(call.input.product_ids) = 2
    /\ Cardinality(call.result[1].order[1].products) = 1

\* C9: every stored product has a price above zero and a stock of zero or
\* more (zero when the stock was omitted); createProduct with a price that
\* is not positive or does not parse, or with a negative stock, returns
\* product none and a non-empty error list naming the price problem and the
\* stock problem, both when both are present, and writes nothing.
C9_ProductValidation ==
    [][/\ \A k \in 1..Len(products') :
              products'[k].price > 0 /\ products'[k].stock >= 0
       /\ (call.pc = "idle" /\ call'.op = "createProduct")
          => LET in == call'.input
                 r == call'.result[1]
                 priceBad == in.price.kind # "float" \/ in.price.units <= 0
                 stockBad == IsSome(in.stock) /\ in.stock[1] < 0
             IN  IF priceBad \/ stockBad
                 THEN /\ r.product = None
                      /\ r.errors # <<>>
                      /\ priceBad => \E e \in 1..Len(r.errors) :
                             r.errors[e] \in {MsgPricePositive, MsgInvalidPrice}
                      /\ stockBad => \E e \in 1..Len(r.errors) :
                             r.errors[e] = MsgStockNegative
                      /\ products' = products
                 ELSE /\ r.errors = <<>>
                      /\ products' = Append(products, r.product[1])
                      /\ r.product[1].price = in.price.units
                      /\ r.product[1].stock = IF IsSome(in.stock) THEN in.stock[1] ELSE 0
                      /\ r.product[1].name = in.name]_vars

\* A price that does not parse, sent with a negative stock, was answered
\* with both errors.
C9_Witness ==
    /\ call.op = "createProduct"
    /\ call.pc = "done"
    /\ call.input.price.kind = "text"
    /\ call.input.stock = Some(-1)
    /\ call.result = Some([product |-> None,
                           errors |-> <<MsgInvalidPrice, MsgStockNegative>>])
    /\ Len(products) >= 1

----------------------------------------------------------------------------
(* Claims about the list resolvers.                                        *)

\* The keys the filter object of the last query holds with a value.
PresentKeys(keys) ==
    IF query.filter = None THEN {}
    ELSE {k \in keys : query.filter[1][k] \notin {Absent, None}}

\* The ids of the collection the last query ranges over.
QueriedIds ==
    CASE query.entity = "customers" -> {customers[i].id : i \in 1..Len(customers)}
      [] query.entity = "products" -> {products[i].id : i \in 1..Len(products)}
      [] query.entity = "orders" -> {orders[i].id : i \in 1..Len(orders)}

\* The record `id` of that collection satisfies the predicate of key k at v.
QueriedMatches(id, k, v) ==
    CASE query.entity = "customers" -> CustomerMatches(customers[id], k, v)
      [] query.entity = "products" -> ProductMatches(products[id], k, v)
      [] query.entity = "orders" -> OrderMatches(orders[id], k, v, customers, products)

\* What C10 says of the last query, over a collection with the filter keys
\* `keys`, of which `numeric` are the numeric bounds.
FilterIgnoresAbsent(keys, numeric) ==
    LET present == PresentKeys(keys)
        data == query.filter_data
    IN  /\ DOMAIN data \subseteq present
        /\ \A k \in DOMAIN data : data[k] = query.filter[1][k][1]
        /\ query.result \subseteq QueriedIds
        /\ present = {} => query.result = QueriedIds
        /\ {id \in QueriedIds :
               \A k \in present : QueriedMatches(id, k, query.filter[1][k][1])}
               \subseteq query.result
        /\ \A k \in numeric \cap present :
               /\ k \in DOMAIN data
               /\ \A id \in query.result :
                      QueriedMatches(id, k, query.filter[1][k][1])

\* C10: in allCustomers, allProducts and allOrders a key that is absent or
\* null adds no predicate: the filter set is given only keys that are
\* present, a filter object with no key set gives the result of no filter,
\* and a numeric bound that is present and 0 is applied.
C10_AbsentKeysIgnored ==
    /\ query.entity = "customers" => FilterIgnoresAbsent(CustomerKeys, {})
    /\ query.entity = "products" => FilterIgnoresAbsent(ProductKeys, ProductNumericKeys)
    /\ query.entity = "orders" => FilterIgnoresAbsent(OrderKeys, OrderNumericKeys)

\* allProducts with price_lte 0, a null price_gte and the other keys absent
\* returned no product of the three stored.
C10_Witness ==
    /\ query.entity = "products"
    /\ query.filter = Some([name_icontains |-> Absent, price_gte |-> None,
                            price_lte |-> Some(0), stock_gte |-> Absent,
                            stock_lte |-> Absent])
    /\ DOMAIN query.filter_data = {"price_lte"}
    /\ query.result = {}
    /\ Len(products) = 3

====
